---------------------------- MODULE Spec2Model ----------------------------
(***************************************************************************)
(* Model of app.py, the Streamlit chat front-end of the ChatAnalyst report *)
(* agent.  One Streamlit server process serves several browser sessions;   *)
(* every user interaction re-executes the script top to bottom for that    *)
(* browser session.  A script run is modelled by the position pc[b] of     *)
(* browser session b in the script:                                        *)
(*                                                                         *)
(*   idle --StartRun--> get_agent --GetAgent--> (init --InitAgent-->)      *)
(*        session --SessionSetup--> input --HandleInput--> streaming       *)
(*        --StreamEvent*--> (StreamEnd | StreamRaise) --> idle             *)
(*                                                                         *)
(* st.stop() ends the run (back to idle).  Text is a sequence of tokens:   *)
(* one-character strings for the agent's text, one token for each fixed    *)
(* literal of the script.                                                  *)
(***************************************************************************)
EXTENDS Naturals, Sequences, FiniteSets

VARIABLES
    secrets,             \* st.secrets: the set of section and key paths present
    agent_cache,         \* the st.cache_resource entry of get_financial_agent
    cache_lock,          \* browser session computing the cache entry, or NoBrowser
    vertex_credentials,  \* how the last vertexai.init() was called
    init_runs,           \* number of executions of get_financial_agent's body
    init_ok,             \* number of those that returned a handle
    uuid_counter,        \* number of values uuid.uuid4() has returned
    remote_sessions,     \* the agent's sessions: session id i -> user id
    pc,                  \* position of each browser session's script run
    prompt,              \* value st.chat_input returns in the current run
    chat_input_shown,    \* the chat input widget was rendered by the last run
    session_state,       \* st.session_state of each browser session
    full_response_parts, \* the list of the current exchange
    placeholder,         \* values response_placeholder.markdown() was given
    received,            \* events agent.stream_query has yielded in this exchange
    st_error,            \* last st.error() of the current run
    stream_call,         \* arguments of the last agent.stream_query call
    outcome,             \* how the last exchange ended
    generated,           \* user ids generated in each browser session
    discarded,           \* user ids deleted after a failed create_session
    created_ok,          \* sessions stored by each browser session
    exchanges            \* prompts handled by each browser session

vars == << secrets, agent_cache, cache_lock, vertex_credentials, init_runs,
           init_ok, uuid_counter, remote_sessions, pc, prompt,
           chat_input_shown, session_state, full_response_parts, placeholder,
           received, st_error, stream_call, outcome, generated, discarded,
           created_ok, exchanges >>

procVars == << agent_cache, cache_lock, vertex_credentials, init_runs, init_ok >>
idVars == << uuid_counter, remote_sessions, generated, discarded, created_ok >>
streamVars == << full_response_parts, placeholder, received, outcome >>

-----------------------------------------------------------------------------
(* Bounds of the model *)

MaxExchanges == 2
MaxStreamExchanges == 1
MaxEvents == 2
MaxFrags == 2
MaxUuid == 3
MaxInits == 2

Browsers == {"b1", "b2"}
SessionBrowsers == {"b1"}

-----------------------------------------------------------------------------
(* Values *)

NoBrowser == "none"
NoAgent == "none"
AgentHandle == "agent"
NoPrompt == << >>
NoError == [kind |-> "none"]
NoCall == [made |-> FALSE]

CURSOR == "|"
FALLBACK == << "Sorry, I encountered an issue and couldn't get a response. Please check the logs or try again." >>
ERROR_PREFIX == << "Error: Could not get a response. Details: " >>

Prompts == { << "h", "i" >>, << "$", "?" >> }
StreamPrompts == { << "h", "i" >> }
Errors == { << "t", "i", "m", "e", "o", "u", "t" >>, << "q", "u", "o", "t", "a" >> }
StreamErrors == { << "q", "u", "o", "t", "a" >> }
Texts == { << >>, << "a" >>, << "$" >> }

NoKey == "none"

(* The lookups of lines 10-13, in order: st.secrets[section][key] *)
Lookups == << << "gcp", "project_id" >>,
              << "gcp", "location" >>,
              << "gcp", "staging_bucket_name" >>,
              << "agent", "resource_id" >> >>

(* st.secrets contents: the set of paths present, a key only in a section *)
SecretPaths == { << Lookups[i][1] >> : i \in DOMAIN Lookups }
                   \cup { Lookups[i] : i \in DOMAIN Lookups }
Configs == { c \in SUBSET SecretPaths :
               \A p \in c : Len(p) = 2 => << p[1] >> \in c }

(* Mutant: only the section is looked up *)
LookupErrorSectionOnly(c, path) ==
    IF << path[1] >> \notin c THEN path[1] ELSE NoKey

(* The KeyError of st.secrets[section][key]: the first key not found *)
LookupError(c, path) ==
    IF << path[1] >> \notin c THEN path[1]
    ELSE IF path \notin c THEN path[2]
    ELSE NoKey

RECURSIVE FirstKeyError(_, _)
FirstKeyError(c, i) ==
    IF i > Len(Lookups) THEN NoKey
    ELSE IF LookupError(c, Lookups[i]) # NoKey THEN LookupError(c, Lookups[i])
    ELSE FirstKeyError(c, i + 1)

MissingKey(c) == FirstKeyError(c, 1)

(* st.session_state: a mapping whose keys may be absent *)
Has(s, k) == k \in DOMAIN s
Put(s, k, v) == [x \in DOMAIN s \cup {k} |-> IF x = k THEN v ELSE s[x]]
Del(s, k) == [x \in DOMAIN s \ {k} |-> s[x]]
EmptyState == [x \in {} |-> 0]

(* "".join(parts) *)
RECURSIVE Join(_)
Join(parts) == IF parts = << >> THEN << >> ELSE Head(parts) \o Join(Tail(parts))

(* Mutant: the response is not escaped *)
EscapeNothing(s) == s

(* str.replace("$", "\\$") *)
RECURSIVE EscapeDollars(_)
EscapeDollars(s) ==
    IF s = << >> THEN << >>
    ELSE (IF Head(s) = "$" THEN << "\\", "$" >> ELSE << Head(s) >>)
             \o EscapeDollars(Tail(s))

(* Events of agent.stream_query: content -> parts[] -> text, each optional *)
Parts == { [text |-> t] : t \in Texts } \cup { [function_call |-> "tool"] }
PartSeqs == { << >> } \cup { << p >> : p \in Parts }
               \cup { << p, q >> : p, q \in Parts }
Events == { [author |-> "agent"], [content |-> [role |-> "model"]] }
              \cup { [content |-> [parts |-> ps]] : ps \in PartSeqs }
SessionEvents == { [content |-> [parts |-> << [text |-> << "$" >>] >>]] }

-----------------------------------------------------------------------------
Init ==
    /\ secrets \in Configs
    /\ agent_cache = NoAgent
    /\ cache_lock = NoBrowser
    /\ vertex_credentials = "unset"
    /\ init_runs = 0
    /\ init_ok = 0
    /\ uuid_counter = 0
    /\ remote_sessions = << >>
    /\ pc = [b \in Browsers |-> "idle"]
    /\ prompt = [b \in Browsers |-> NoPrompt]
    /\ chat_input_shown = [b \in Browsers |-> FALSE]
    /\ session_state = [b \in Browsers |-> EmptyState]
    /\ full_response_parts = [b \in Browsers |-> << >>]
    /\ placeholder = [b \in Browsers |-> << >>]
    /\ received = [b \in Browsers |-> << >>]
    /\ st_error = [b \in Browsers |-> NoError]
    /\ stream_call = [b \in Browsers |-> NoCall]
    /\ outcome = [b \in Browsers |-> "none"]
    /\ generated = [b \in Browsers |-> 0]
    /\ discarded = [b \in Browsers |-> {}]
    /\ created_ok = [b \in Browsers |-> 0]
    /\ exchanges = [b \in Browsers |-> 0]

-----------------------------------------------------------------------------
(* Lines 9-16: a user interaction starts a script run; configuration       *)
(* loading.  p is what st.chat_input will return in this run: a prompt     *)
(* only if the widget was on the page.                                     *)
StartRun(b, p) ==
    /\ pc[b] = "idle"
    /\ p # NoPrompt => chat_input_shown[b] /\ exchanges[b] < MaxExchanges
    /\ prompt' = [prompt EXCEPT ![b] = p]
    /\ IF MissingKey(secrets) # NoKey
       THEN /\ st_error' = [st_error EXCEPT
                              ![b] = [kind |-> "config", detail |-> MissingKey(secrets)]]
            /\ chat_input_shown' = [chat_input_shown EXCEPT ![b] = FALSE]
            /\ pc' = pc
       ELSE /\ st_error' = [st_error EXCEPT ![b] = NoError]
            /\ chat_input_shown' = chat_input_shown
            /\ pc' = [pc EXCEPT ![b] = "get_agent"]
    /\ UNCHANGED << secrets, procVars, idVars, session_state, streamVars,
                    stream_call, exchanges >>

(* Mutant: get_financial_agent without st.cache_resource *)
GetAgentUncached(b) ==
    /\ pc[b] = "get_agent"
    /\ init_runs < MaxInits
    /\ cache_lock' = b
    /\ init_runs' = init_runs + 1
    /\ pc' = [pc EXCEPT ![b] = "init"]
    /\ UNCHANGED << secrets, agent_cache, vertex_credentials, init_ok, idVars,
                    prompt, chat_input_shown, session_state, streamVars,
                    st_error, stream_call, exchanges >>

(* Lines 19-20, 73: the call of the st.cache_resource function.  A cached  *)
(* handle is returned; otherwise the caller computes it under the cache's  *)
(* lock, or waits while another run computes it.                           *)
GetAgent(b) ==
    /\ pc[b] = "get_agent"
    /\ IF agent_cache # NoAgent
       THEN /\ pc' = [pc EXCEPT ![b] = "session"]
            /\ UNCHANGED << cache_lock, init_runs >>
       ELSE /\ cache_lock = NoBrowser
            /\ init_runs < MaxInits
            /\ cache_lock' = b
            /\ init_runs' = init_runs + 1
            /\ pc' = [pc EXCEPT ![b] = "init"]
    /\ UNCHANGED << secrets, agent_cache, vertex_credentials, init_ok, idVars,
                    prompt, chat_input_shown, session_state, streamVars,
                    st_error, stream_call, exchanges >>

(* Lines 21-76: the body of get_financial_agent and the try around its     *)
(* call.  payload is gcp.service_account_credentials_json; initOk, getOk   *)
(* say whether vertexai.init() and agent_engines.get() return.  A raised   *)
(* exception is not cached.                                                *)
InitAgent(b, payload, initOk, getOk) ==
    /\ pc[b] = "init"
    /\ cache_lock' = NoBrowser
    /\ vertex_credentials' =
          IF ~initOk THEN vertex_credentials
          ELSE IF payload = "valid" THEN "explicit" ELSE "ambient"
    /\ IF initOk /\ getOk
       THEN /\ agent_cache' = AgentHandle
            /\ init_ok' = init_ok + 1
            /\ pc' = [pc EXCEPT ![b] = "session"]
            /\ UNCHANGED << st_error, chat_input_shown >>
       ELSE /\ st_error' = [st_error EXCEPT
                              ![b] = [kind |-> "agent",
                                      detail |-> IF initOk THEN "get" ELSE "init"]]
            /\ chat_input_shown' = [chat_input_shown EXCEPT ![b] = FALSE]
            /\ pc' = [pc EXCEPT ![b] = "idle"]
            /\ UNCHANGED << agent_cache, init_ok >>
    /\ UNCHANGED << secrets, init_runs, idVars, prompt, session_state,
                    streamVars, stream_call, exchanges >>

(* Mutant: a user identity is generated in every script run *)
NeedsUserIdAlways(s) == TRUE

(* Line 79: the user identity is generated only when none is stored *)
NeedsUserId(s) == ~Has(s, "agent_user_id")

(* Mutant: a session is created in every script run *)
NeedsSessionAlways(s) == TRUE

(* Line 83: a session is created only when no session identity is stored *)
NeedsSession(s) == ~Has(s, "agent_session_id")

(* Mutant: the user identity survives a failed session creation *)
OnCreateFailureKeep(s) == s

(* Line 92: a failed session creation drops the user identity *)
OnCreateFailure(s) ==
    IF Has(s, "agent_user_id") THEN Del(s, "agent_user_id") ELSE s

(* Lines 95-96 *)
InitMessages(s) == IF Has(s, "messages") THEN s ELSE Put(s, "messages", << >>)

(* Lines 79-96: session state management.  result is what                  *)
(* agent.create_session does: "ok" returns a record with an id, "raise"    *)
(* raises, "no_id" creates the session and returns a record without "id".  *)
SessionSetup(b, result) ==
    /\ pc[b] = "session"
    /\ LET s0  == session_state[b]
           gen == NeedsUserId(s0)
           uid == IF gen THEN uuid_counter + 1 ELSE s0["agent_user_id"]
           s1  == IF gen THEN Put(s0, "agent_user_id", uid) ELSE s0
       IN  /\ gen => uuid_counter < MaxUuid
           /\ uuid_counter' = IF gen THEN uuid_counter + 1 ELSE uuid_counter
           /\ generated' = [generated EXCEPT ![b] = IF gen THEN @ + 1 ELSE @]
           /\ IF ~NeedsSession(s1)
              THEN /\ session_state' = [session_state EXCEPT ![b] = InitMessages(s1)]
                   /\ pc' = [pc EXCEPT ![b] = "input"]
                   /\ UNCHANGED << remote_sessions, discarded, created_ok,
                                   st_error, chat_input_shown >>
              ELSE IF result = "ok"
              THEN /\ remote_sessions' = Append(remote_sessions, uid)
                   /\ session_state' =
                         [session_state EXCEPT
                            ![b] = InitMessages(Put(s1, "agent_session_id",
                                                    Len(remote_sessions) + 1))]
                   /\ created_ok' = [created_ok EXCEPT ![b] = @ + 1]
                   /\ pc' = [pc EXCEPT ![b] = "input"]
                   /\ UNCHANGED << discarded, st_error, chat_input_shown >>
              ELSE /\ remote_sessions' =
                         IF result = "no_id" THEN Append(remote_sessions, uid)
                         ELSE remote_sessions
                   /\ st_error' = [st_error EXCEPT
                                     ![b] = [kind |-> "session", detail |-> result]]
                   /\ session_state' = [session_state EXCEPT ![b] = OnCreateFailure(s1)]
                   /\ discarded' = [discarded EXCEPT ![b] = @ \cup {uid}]
                   /\ chat_input_shown' = [chat_input_shown EXCEPT ![b] = FALSE]
                   /\ pc' = [pc EXCEPT ![b] = "idle"]
                   /\ UNCHANGED created_ok
    /\ UNCHANGED << secrets, procVars, prompt, streamVars, stream_call, exchanges >>

(* Lines 98-124: the page is rendered; a submitted prompt is appended to   *)
(* the transcript and the streaming query is opened with the stored ids.   *)
HandleInput(b) ==
    /\ pc[b] = "input"
    /\ chat_input_shown' = [chat_input_shown EXCEPT ![b] = TRUE]
    /\ IF prompt[b] = NoPrompt
       THEN /\ pc' = [pc EXCEPT ![b] = "idle"]
            /\ UNCHANGED << session_state, streamVars, stream_call, exchanges >>
       ELSE /\ session_state' =
                  [session_state EXCEPT
                     ![b]["messages"] = Append(@, [role |-> "user", content |-> prompt[b]])]
            /\ full_response_parts' = [full_response_parts EXCEPT ![b] = << >>]
            /\ placeholder' = [placeholder EXCEPT ![b] = << >>]
            /\ received' = [received EXCEPT ![b] = << >>]
            /\ outcome' = [outcome EXCEPT ![b] = "streaming"]
            /\ stream_call' =
                  [stream_call EXCEPT
                     ![b] = [made |-> TRUE,
                             user_id |-> session_state[b]["agent_user_id"],
                             session_id |-> session_state[b]["agent_session_id"],
                             message |-> prompt[b]]]
            /\ exchanges' = [exchanges EXCEPT ![b] = @ + 1]
            /\ pc' = [pc EXCEPT ![b] = "streaming"]
    /\ UNCHANGED << secrets, procVars, idVars, prompt, st_error >>

(* Mutant: only the latest fragment is shown *)
RefreshLatest(parts) == Append(parts[Len(parts)], CURSOR)

(* Line 132: the text shown while streaming *)
Refresh(parts) == Append(Join(parts), CURSOR)

(* Lines 127-132: the parts of one event, in order *)
RECURSIVE ConsumeParts(_, _, _)
ConsumeParts(ps, frp, shown) ==
    IF ps = << >> THEN [frp |-> frp, shown |-> shown]
    ELSE IF "text" \in DOMAIN Head(ps)
    THEN ConsumeParts(Tail(ps), Append(frp, Head(ps)["text"]),
                      Append(shown, Refresh(Append(frp, Head(ps)["text"]))))
    ELSE ConsumeParts(Tail(ps), frp, shown)

(* Lines 126-132: one event *)
ConsumeEvent(event, frp, shown) ==
    IF "content" \in DOMAIN event /\ "parts" \in DOMAIN event["content"]
    THEN ConsumeParts(event["content"]["parts"], frp, shown)
    ELSE [frp |-> frp, shown |-> shown]

(* Lines 120-132: one iteration of the for loop over the stream *)
StreamEvent(b, event) ==
    /\ pc[b] = "streaming"
    /\ Len(received[b]) < MaxEvents
    /\ LET r == ConsumeEvent(event, full_response_parts[b], placeholder[b])
       IN  /\ Len(r.frp) <= MaxFrags
           /\ full_response_parts' = [full_response_parts EXCEPT ![b] = r.frp]
           /\ placeholder' = [placeholder EXCEPT ![b] = r.shown]
    /\ received' = [received EXCEPT ![b] = Append(@, event)]
    /\ UNCHANGED << secrets, procVars, idVars, pc, prompt, chat_input_shown,
                    session_state, st_error, stream_call, outcome, exchanges >>

(* Mutant: the fallback replaces any empty response *)
NoTextReceivedLoose(final_response, parts) == final_response = << >>

(* Line 137: no text part was received at all *)
NoTextReceived(final_response, parts) == final_response = << >> /\ parts = << >>

(* Lines 134-139 *)
FinalResponse(parts) ==
    IF NoTextReceived(EscapeDollars(Join(parts)), parts) THEN FALLBACK
    ELSE EscapeDollars(Join(parts))

(* Lines 134-142: the stream ended *)
StreamEnd(b) ==
    /\ pc[b] = "streaming"
    /\ placeholder' = [placeholder EXCEPT
                         ![b] = Append(@, FinalResponse(full_response_parts[b]))]
    /\ session_state' =
          [session_state EXCEPT
             ![b]["messages"] =
                Append(@, [role |-> "assistant",
                           content |-> FinalResponse(full_response_parts[b])])]
    /\ outcome' = [outcome EXCEPT ![b] = "ended"]
    /\ pc' = [pc EXCEPT ![b] = "idle"]
    /\ UNCHANGED << secrets, procVars, idVars, prompt, chat_input_shown,
                    full_response_parts, received, st_error, stream_call,
                    exchanges >>

(* Mutant: the error entry without the error detail *)
ErrorContentNoDetail(e) == ERROR_PREFIX

(* Line 148: the content recorded for a failed query *)
ErrorContent(e) == ERROR_PREFIX \o e

(* Mutant: a failed query records nothing *)
RecordErrorDropped(messages, e) == messages

(* Line 148 *)
RecordError(messages, e) ==
    Append(messages, [role |-> "assistant", content |-> ErrorContent(e)])

(* Lines 144-148: stream_query raised e, on opening or between events *)
StreamRaise(b, e) ==
    /\ pc[b] = "streaming"
    /\ st_error' = [st_error EXCEPT ![b] = [kind |-> "query", detail |-> e]]
    /\ session_state' =
          [session_state EXCEPT ![b]["messages"] = RecordError(@, e)]
    /\ outcome' = [outcome EXCEPT ![b] = "error"]
    /\ pc' = [pc EXCEPT ![b] = "idle"]
    /\ UNCHANGED << secrets, procVars, idVars, prompt, chat_input_shown,
                    full_response_parts, placeholder, received, stream_call,
                    exchanges >>

-----------------------------------------------------------------------------
(* One browser session: reruns and message exchanges *)
Next ==
    \E b \in SessionBrowsers :
        \/ \E p \in Prompts \cup {NoPrompt} : StartRun(b, p)
        \/ GetAgent(b)
        \/ \E initOk, getOk \in BOOLEAN : InitAgent(b, "absent", initOk, getOk)
        \/ \E result \in {"ok", "raise", "no_id"} : SessionSetup(b, result)
        \/ HandleInput(b)
        \/ \E event \in SessionEvents : StreamEvent(b, event)
        \/ StreamEnd(b)
        \/ \E e \in Errors : StreamRaise(b, e)

Spec == Init /\ [][Next]_vars

(* One browser session whose set-up succeeds, every shape of stream event *)
NextStream ==
    \E b \in SessionBrowsers :
        \/ \E p \in StreamPrompts \cup {NoPrompt} :
              /\ p # NoPrompt => exchanges[b] < MaxStreamExchanges
              /\ StartRun(b, p)
        \/ GetAgent(b)
        \/ InitAgent(b, "absent", TRUE, TRUE)
        \/ SessionSetup(b, "ok")
        \/ HandleInput(b)
        \/ \E event \in Events : StreamEvent(b, event)
        \/ StreamEnd(b)
        \/ \E e \in StreamErrors : StreamRaise(b, e)

SpecStream == Init /\ [][NextStream]_vars

(* Concurrent browser sessions sharing the process and its agent cache;    *)
(* each sends at most its first prompt                                     *)
NextShared ==
    \E b \in Browsers :
        \/ \E p \in StreamPrompts \cup {NoPrompt} :
              /\ p # NoPrompt => exchanges[b] = 0
              /\ StartRun(b, p)
        \/ GetAgent(b)
        \/ \E payload \in {"absent", "valid", "invalid"}, initOk, getOk \in BOOLEAN :
              InitAgent(b, payload, initOk, getOk)
        \/ \E result \in {"ok", "raise"} : SessionSetup(b, result)
        \/ HandleInput(b)
        \/ \E event \in SessionEvents : StreamEvent(b, event)
        \/ StreamEnd(b)
        \/ \E e \in StreamErrors : StreamRaise(b, e)

SpecShared == Init /\ [][NextShared]_vars

-----------------------------------------------------------------------------
(* Properties *)

MessagesOf(s) == IF Has(s, "messages") THEN s["messages"] ELSE << >>
Messages(b) == MessagesOf(session_state[b])
LastMessage(b) == Messages(b)[Len(Messages(b))]
IsPrefix(a, c) == Len(a) <= Len(c) /\ SubSeq(c, 1, Len(a)) = a

(* The text fragments of a stream, read off the events it yielded *)
HasText(part) == "text" \in DOMAIN part
TextsOf(event) ==
    IF "content" \in DOMAIN event /\ "parts" \in DOMAIN event["content"]
    THEN LET withText == SelectSeq(event["content"]["parts"], HasText)
         IN  [i \in 1..Len(withText) |-> withText[i]["text"]]
    ELSE << >>

RECURSIVE Fragments(_)
Fragments(events) ==
    IF events = << >> THEN << >>
    ELSE Fragments(SubSeq(events, 1, Len(events) - 1)) \o TextsOf(events[Len(events)])

RECURSIVE ConcatFirst(_, _)
ConcatFirst(frags, k) ==
    IF k = 0 THEN << >> ELSE ConcatFirst(frags, k - 1) \o frags[k]

NotBackslash(c) == c # "\\"

(* C1, state part: after N prompts the transcript has 2N entries (2N - 1   *)
(* while the N-th answer is being produced), alternating user, assistant.  *)
C1_Shape ==
    \A b \in Browsers :
        /\ Len(Messages(b)) =
              IF pc[b] = "streaming" THEN 2 * exchanges[b] - 1 ELSE 2 * exchanges[b]
        /\ \A i \in 1..Len(Messages(b)) :
              Messages(b)[i].role = IF i % 2 = 1 THEN "user" ELSE "assistant"

(* C1, step part: the transcript only grows at its end, by one entry.      *)
C1_AppendOnly ==
    \A b \in Browsers :
        /\ IsPrefix(Messages(b), MessagesOf(session_state'[b]))
        /\ Len(MessagesOf(session_state'[b])) <= Len(Messages(b)) + 1

(* C1: every exchange, whatever its outcome, appends exactly one user      *)
(* entry then exactly one assistant entry; after N exchanges the           *)
(* transcript has 2N alternating entries and earlier entries never change. *)
C1_Transcript == [] C1_Shape /\ [][C1_AppendOnly]_vars

(* C1 witness: two exchanges done, the first answered by the fallback      *)
(* (empty stream), the second by an error entry.                           *)
C1_Witness ==
    /\ pc["b1"] = "idle"
    /\ exchanges["b1"] = 2
    /\ Len(Messages("b1")) = 4
    /\ Messages("b1")[2].content = FALLBACK
    /\ outcome["b1"] = "error"

(* C2, state part: after a failed query the last transcript entry is the   *)
(* assistant's error entry, not the partial text, the identities are       *)
(* stored and the chat input is on the page.                               *)
C2_AfterError ==
    \A b \in Browsers :
        outcome[b] = "error" =>
            /\ pc[b] # "streaming"
            /\ Messages(b) # << >>
            /\ LastMessage(b).role = "assistant"
            /\ \E e \in Errors : LastMessage(b).content = ERROR_PREFIX \o e
            /\ st_error[b].kind = "query" =>
                  LastMessage(b).content = ERROR_PREFIX \o st_error[b].detail
            /\ full_response_parts[b] # << >> =>
                  LastMessage(b).content # EscapeDollars(Join(full_response_parts[b]))
            /\ Has(session_state[b], "agent_user_id")
            /\ Has(session_state[b], "agent_session_id")
            /\ chat_input_shown[b]

(* C2, step part: the step in which the query fails ends the run normally, *)
(* appends the entry embedding the raised error and leaves both identities *)
(* alone; every later stream_query call passes the identities of the       *)
(* earlier ones.                                                           *)
C2_Step ==
    \A b \in Browsers :
        /\ (pc[b] = "streaming" /\ outcome'[b] = "error") =>
              /\ pc'[b] = "idle"
              /\ st_error'[b].kind = "query"
              /\ MessagesOf(session_state'[b]) =
                    Append(Messages(b), [role |-> "assistant",
                                         content |-> ERROR_PREFIX \o st_error'[b].detail])
              /\ session_state'[b]["agent_user_id"] = session_state[b]["agent_user_id"]
              /\ session_state'[b]["agent_session_id"] = session_state[b]["agent_session_id"]
        /\ (stream_call[b].made /\ stream_call'[b] # stream_call[b]) =>
              /\ stream_call'[b].user_id = stream_call[b].user_id
              /\ stream_call'[b].session_id = stream_call[b].session_id

(* C2: an error raised by the streaming query, on opening or after some    *)
(* fragments, stays inside the handler: the assistant entry embeds the     *)
(* error detail, the identities are unchanged and the next prompt is a     *)
(* normal exchange with the same identities.                               *)
C2_QueryFailure == [] C2_AfterError /\ [][C2_Step]_vars

(* C2 witness: the first exchange failed; the second, with the same        *)
(* identities, failed after a fragment had been received.                  *)
C2_Witness ==
    /\ pc["b1"] = "idle"
    /\ exchanges["b1"] = 2
    /\ \E e \in Errors : Messages("b1")[2].content = ERROR_PREFIX \o e
    /\ outcome["b1"] = "error"
    /\ full_response_parts["b1"] # << >>
    /\ stream_call["b1"].user_id = session_state["b1"]["agent_user_id"]

(* C3: a failed create_session (raising, or returning no id) removes the   *)
(* user identity, stores no session identity and halts the run before the  *)
(* transcript exists or a prompt is handled; a user identity stored later  *)
(* is never one that was discarded.                                        *)
C3_CreateFailure ==
    \A b \in Browsers :
        /\ st_error[b].kind = "session" =>
              /\ pc[b] = "idle"
              /\ ~Has(session_state[b], "agent_user_id")
              /\ ~Has(session_state[b], "agent_session_id")
              /\ ~Has(session_state[b], "messages")
              /\ ~chat_input_shown[b]
              /\ exchanges[b] = 0
              /\ stream_call[b] = NoCall
        /\ Has(session_state[b], "agent_user_id") =>
              session_state[b]["agent_user_id"] \notin discarded[b]

(* C3 witness: two attempts failed, one of them while reading the id, and  *)
(* the third attempt succeeded with a new user identity.                   *)
C3_Witness ==
    /\ Cardinality(discarded["b1"]) = 2
    /\ Len(remote_sessions) = 2
    /\ Has(session_state["b1"], "agent_session_id")
    /\ session_state["b1"]["agent_user_id"] \notin discarded["b1"]

(* C4 as stated: in a browser session the user identity is generated once  *)
(* and create_session succeeds at most once.                               *)
C4_Original ==
    \A b \in Browsers : generated[b] <= 1 /\ created_ok[b] <= 1

(* C4 amended, state part *)
C4_Counts ==
    \A b \in Browsers :
        /\ created_ok[b] <= 1
        /\ Has(session_state[b], "agent_session_id") <=> created_ok[b] = 1
        /\ generated[b] = Cardinality(discarded[b])
                            + (IF Has(session_state[b], "agent_user_id") THEN 1 ELSE 0)

(* C4 amended, step part *)
C4_Stable ==
    \A b \in Browsers :
        /\ (Has(session_state[b], "agent_user_id")
              /\ Has(session_state'[b], "agent_user_id")) =>
              session_state'[b]["agent_user_id"] = session_state[b]["agent_user_id"]
        /\ Has(session_state[b], "agent_session_id") =>
              /\ Has(session_state'[b], "agent_session_id")
              /\ Has(session_state'[b], "agent_user_id")
              /\ session_state'[b]["agent_session_id"] = session_state[b]["agent_session_id"]
              /\ generated'[b] = generated[b]

(* C4 amended: the user identity is generated once per session-creation    *)
(* attempt (one more after each failed attempt, never while one is         *)
(* stored); create_session succeeds at most once; once a session identity  *)
(* is stored, neither stored value ever changes.                           *)
C4_Amended == [] C4_Counts /\ [][C4_Stable]_vars

(* C4 witness: the second generated identity got the session, and an       *)
(* exchange was completed with it.                                         *)
C4_Witness ==
    /\ generated["b1"] = 2
    /\ created_ok["b1"] = 1
    /\ exchanges["b1"] = 1
    /\ pc["b1"] = "idle"

(* C5 as stated: the initialisation is executed at most once per process.  *)
C5_Original == init_runs <= 1

(* C5 amended, state part *)
C5_Once ==
    /\ init_ok <= 1
    /\ agent_cache # NoAgent <=> init_ok = 1
    /\ Cardinality({ b \in Browsers : pc[b] = "init" }) <= 1
    /\ \A b \in Browsers :
          /\ pc[b] \in {"session", "input", "streaming"} => agent_cache = AgentHandle
          /\ st_error[b].kind = "agent" => pc[b] = "idle" /\ ~chat_input_shown[b]

(* C5 amended, step part *)
C5_Memoized ==
    agent_cache # NoAgent =>
        /\ agent_cache' = agent_cache
        /\ init_runs' = init_runs
        /\ init_ok' = init_ok
        /\ vertex_credentials' = vertex_credentials

(* C5 amended: over any interleaving of script runs the initialisation     *)
(* succeeds at most once and never runs in two script runs at a time;      *)
(* once it has succeeded every invocation returns the memoized handle      *)
(* without repeating it; a failed initialisation halts that script run     *)
(* and is not memoized, so a later script run executes it again.           *)
C5_Amended == [] C5_Once /\ [][C5_Memoized]_vars

(* C5 witness: the first initialisation failed, the second succeeded, and  *)
(* both browser sessions got their session with the one handle.            *)
C5_Witness ==
    /\ init_runs = 2
    /\ init_ok = 1
    /\ \A b \in Browsers : Has(session_state[b], "agent_session_id")

AbsentKeys ==
    { Lookups[i][1] : i \in { k \in DOMAIN Lookups : << Lookups[k][1] >> \notin secrets } }
        \cup { Lookups[i][2] : i \in { k \in DOMAIN Lookups : Lookups[k] \notin secrets } }

SettingAbsent == \E i \in DOMAIN Lookups : Lookups[i] \notin secrets

(* C6, state part: with a required setting absent no script run gets past  *)
(* configuration loading.                                                  *)
C6_Halted ==
    SettingAbsent =>
        /\ init_runs = 0
        /\ agent_cache = NoAgent
        /\ \A b \in Browsers :
              /\ pc[b] = "idle"
              /\ session_state[b] = EmptyState
              /\ st_error[b].kind \in {"none", "config"}
              /\ st_error[b].kind = "config" => st_error[b].detail \in AbsentKeys

(* C6, step part: every script run reports the error.                      *)
C6_Reported ==
    SettingAbsent =>
        \E b \in Browsers : st_error'[b].kind = "config"

(* C6: when one of the four required settings is absent the script run     *)
(* halts at configuration loading with an error naming an absent key;      *)
(* get_financial_agent is not invoked and no identity or transcript is     *)
(* created.                                                                *)
C6_MissingConfig == [] C6_Halted /\ [][C6_Reported]_vars

(* C6 witness: gcp.location is absent, gcp.project_id present, and the run *)
(* reported "location".                                                    *)
C6_Witness ==
    /\ << "gcp", "project_id" >> \in secrets
    /\ << "gcp", "location" >> \notin secrets
    /\ st_error["b1"] = [kind |-> "config", detail |-> "location"]

(* C7: when the stream ends without error having yielded a text fragment,  *)
(* the assistant entry is the concatenation of the fragments in arrival    *)
(* order with every "$" preceded by a backslash.                           *)
C7_Concatenation ==
    \A b \in Browsers :
        (pc[b] = "idle" /\ outcome[b] = "ended" /\ Fragments(received[b]) # << >>) =>
            LET frags == Fragments(received[b])
                c == LastMessage(b).content
            IN  /\ LastMessage(b).role = "assistant"
                /\ SelectSeq(c, NotBackslash) = ConcatFirst(frags, Len(frags))
                /\ \A i \in 1..Len(c) :
                      /\ c[i] = "$" => i > 1 /\ c[i - 1] = "\\"
                      /\ c[i] = "\\" => i < Len(c) /\ c[i + 1] = "$"

(* C7 witness: "$" then "a", from two events, with a part without text in  *)
(* between, recorded as "\$a".                                             *)
C7_Witness ==
    /\ pc["b1"] = "idle"
    /\ outcome["b1"] = "ended"
    /\ received["b1"] = << [content |-> [parts |-> << [text |-> << "$" >>],
                                                       [function_call |-> "tool"] >>]],
                           [content |-> [parts |-> << [text |-> << "a" >>] >>]] >>
    /\ LastMessage("b1").content = << "\\", "$", "a" >>

(* C8: the fallback message is the assistant entry exactly when the stream *)
(* ended without error and without any text fragment; it is one entry; an  *)
(* empty-string fragment is a fragment.                                    *)
C8_Fallback ==
    \A b \in Browsers :
        /\ (pc[b] = "idle" /\ outcome[b] = "ended") =>
              /\ Len(Messages(b)) = 2 * exchanges[b]
              /\ LastMessage(b).role = "assistant"
              /\ LastMessage(b).content = FALLBACK <=> Fragments(received[b]) = << >>
        /\ (pc[b] = "idle" /\ outcome[b] = "error") =>
              LastMessage(b).content # FALLBACK

(* C8 witness: two events without text, the fallback recorded.             *)
C8_Witness ==
    /\ pc["b1"] = "idle"
    /\ outcome["b1"] = "ended"
    /\ Len(received["b1"]) = 2
    /\ LastMessage("b1").content = FALLBACK
    /\ Len(Messages("b1")) = 2

(* C9: the k-th refresh of the response display shows the first k          *)
(* fragments followed by the cursor; there is one refresh per fragment,    *)
(* and when the stream ends without error one more, without cursor, equal  *)
(* to the assistant entry.                                                 *)
C9_Display ==
    \A b \in Browsers :
        outcome[b] # "none" =>
            LET frags == Fragments(received[b])
                shown == placeholder[b]
            IN  /\ Len(shown) = Len(frags) + (IF outcome[b] = "ended" THEN 1 ELSE 0)
                /\ \A k \in 1..Len(frags) :
                      shown[k] = Append(ConcatFirst(frags, k), CURSOR)
                /\ outcome[b] = "ended" =>
                      /\ shown[Len(shown)] = LastMessage(b).content
                      /\ \A i \in 1..Len(shown[Len(shown)]) :
                            shown[Len(shown)][i] # CURSOR

(* C9 witness: two fragments from two events, three refreshes.             *)
C9_Witness ==
    /\ outcome["b1"] = "ended"
    /\ Len(received["b1"]) = 2
    /\ TextsOf(received["b1"][1]) = << << "a" >> >>
    /\ TextsOf(received["b1"][2]) = << << "$" >> >>
    /\ placeholder["b1"] = << << "a", CURSOR >>, << "a", "$", CURSOR >>,
                              << "a", "\\", "$" >> >>

(* C10: a stored session identity comes with the user identity that was    *)
(* passed to the create_session call that returned it; stream_query is     *)
(* called only with that stored pair; a transcript exists only where both  *)
(* are stored.                                                             *)
C10_Identities ==
    \A b \in Browsers :
        /\ Has(session_state[b], "agent_session_id") =>
              /\ Has(session_state[b], "agent_user_id")
              /\ session_state[b]["agent_session_id"] \in DOMAIN remote_sessions
              /\ remote_sessions[session_state[b]["agent_session_id"]]
                    = session_state[b]["agent_user_id"]
        /\ stream_call[b].made =>
              /\ Has(session_state[b], "agent_session_id")
              /\ stream_call[b].user_id = session_state[b]["agent_user_id"]
              /\ stream_call[b].session_id = session_state[b]["agent_session_id"]
              /\ remote_sessions[stream_call[b].session_id] = stream_call[b].user_id
        /\ Has(session_state[b], "messages") =>
              /\ Has(session_state[b], "agent_user_id")
              /\ Has(session_state[b], "agent_session_id")
        /\ pc[b] \in {"input", "streaming"} =>
              Has(session_state[b], "agent_session_id")

(* C10 witness: after a create_session whose id could not be read, the     *)
(* second user identity got the second session, and a query was made.      *)
C10_Witness ==
    /\ stream_call["b1"].made
    /\ stream_call["b1"].session_id = 2
    /\ stream_call["b1"].user_id = 2
    /\ discarded["b1"] = {1}

=====
